---- MODULE Spec2Model ----
(***************************************************************************)
(* Model of map-painter-io: the game server's GameManager (game registry, *)
(* claim / attack resolution, resource accrual, message fan-out), the      *)
(* client's useSupabaseRealtime hook (channel lifecycle, message queue,    *)
(* reconnection), its GameRealtimeProvider (joining, optimistic actions,  *)
(* broadcast events, presence) and its useGameRealtime hook (event         *)
(* handlers over the fetched game data).  Identifiers (client ids, player  *)
(* ids, game ids, state ids) are small integers; 0 stands for undefined /  *)
(* null.                                                                   *)
(***************************************************************************)
EXTENDS Integers, Sequences, FiniteSets, TLC

\* ---------------------------------------------------------------- bounds
NumClients == 2
MaxJoins == 2
\* joins of the palette specification (more than the palette has colors)
MaxColorJoins == 8
\* messages the component passes to sendMessage in one run
MaxMessages == 3
\* players a client may see in its game, regions it may act on
NumCtxPlayers == 2
NumCtxStates == 1
\* callbacks the provider runs between two renders
MaxUnrendered == 3
MaxResources == 11
NumGames == 2
NumStates == 2

ClientIds == 1..NumClients
PlayerIds == 1..MaxJoins
GameIds == 1..NumGames
StateIds == 1..NumStates
\* extraResources values a client may put into an ATTACK_STATE message
ExtraValues == {-11, 0, 1}

Undefined == 0

\* ------------------------------------------------------ program constants
INITIAL_RESOURCES == 10
CLAIM_COST == 5
ATTACK_BASE_COST == 10
RESOURCE_GAIN_PER_STATE == 1

colors == <<"#FF5733", "#33FF57", "#3357FF", "#F033FF", "#FF33A8", "#33FFF6">>
\* outcomes of the Math.random() fallback color that the model distinguishes
RandomColors == {"#0000aa", "#0000bb"}

JOIN_GAME == "join_game"
LEAVE_GAME == "leave_game"
CLAIM_STATE == "claim_state"
ATTACK_STATE == "attack_state"
GAME_STATE == "game_state"
PLAYER_JOINED == "player_joined"
PLAYER_LEFT == "player_left"
STATE_CLAIMED == "state_claimed"
STATE_ATTACKED == "state_attacked"
RESOURCES_UPDATED == "resources_updated"
STATE_SELECTION == "state_selection"
ERROR == "error"
INVALID_JSON == "invalid_json"
UNKNOWN_TYPE == "unknown_type"

ErrNotEnoughClaim == "Not enough resources to claim state"
ErrAlreadyClaimed == "State is already claimed"
ErrInvalidTarget == "Can only attack states owned by other players"
ErrNotEnoughAttack == "Not enough resources for attack"
ErrInvalidFormat == "Invalid message format"
ErrUnknownType == "Unknown message type"

\* useSupabaseRealtime reconnection configuration
RECONNECT_INITIAL_DELAY == 1000
RECONNECT_MAX_DELAY == 30000
RECONNECT_MAX_ATTEMPTS == 10

\* REALTIME_SUBSCRIBE_STATES
SUBSCRIBED == "SUBSCRIBED"
TIMED_OUT == "TIMED_OUT"
CLOSED == "CLOSED"
CHANNEL_ERROR == "CHANNEL_ERROR"
REALTIME_SUBSCRIBE_STATES == {SUBSCRIBED, TIMED_OUT, CLOSED, CHANNEL_ERROR}

\* ------------------------------------------------------------ map helpers
EmptyMap == [x \in {} |-> 0]
Put(f, k, v) == [x \in (DOMAIN f) \cup {k} |-> IF x = k THEN v ELSE f[x]]
Del(f, k) == [x \in (DOMAIN f) \ {k} |-> f[x]]

RECURSIVE SetToSeq(_)
SetToSeq(S) ==
  IF S = {} THEN << >>
  ELSE LET m == CHOOSE x \in S : \A y \in S : x <= y
       IN << m >> \o SetToSeq(S \ {m})

\* ------------------------------------------------------------------ state
VARIABLES games, clients, resourceUpdateInterval, nextId, sent, last

serverVars == << games, clients, resourceUpdateInterval, nextId, sent, last >>

\* what the handler invoked by the latest step saw and decided
NoLast ==
  [op |-> "none", clientId |-> Undefined, gameId |-> Undefined,
   playerId |-> Undefined, stateId |-> Undefined, extraResources |-> 0,
   outcome |-> "none", totalCost |-> 0, attackerStrength |-> 0,
   defenderStrength |-> 0, success |-> FALSE, defenderId |-> Undefined,
   bodyGameId |-> Undefined, bodyPlayerId |-> Undefined]

\* the GameManager's fields as one value, threaded through the handlers
World == [games |-> games, clients |-> clients,
          resourceUpdateInterval |-> resourceUpdateInterval,
          sent |-> << >>, last |-> NoLast]

\* ------------------------------------------------------------- messaging
sendToClient(w, clientId, message) ==
  [w EXCEPT !.sent = Append(@, [to |-> clientId, msg |-> message])]

sendErrorToClient(w, clientId, errorMessage) ==
  sendToClient(w, clientId,
    [type |-> ERROR, gameId |-> w.clients[clientId].gameId,
     message |-> errorMessage])

\* sendErrorToPlayer that reports the error to every client of the game
sendErrorToPlayer_Broadcast(w, gameId, playerId, errorMessage) ==
  LET bound == {c \in DOMAIN w.clients : w.clients[c].gameId = gameId}
      targets == SetToSeq(bound)
      step[i \in 0..Len(targets)] ==
        IF i = 0 THEN w
        ELSE sendErrorToClient(step[i - 1], targets[i], errorMessage)
  IN step[Len(targets)]

sendErrorToPlayer(w, gameId, playerId, errorMessage) ==
  LET bound == {c \in DOMAIN w.clients :
                  /\ w.clients[c].gameId = gameId
                  /\ w.clients[c].playerId = playerId}
  IN IF bound = {} THEN w
     ELSE sendErrorToClient(w, CHOOSE c \in bound : \A d \in bound : c <= d,
                            errorMessage)

RECURSIVE sendAll(_, _, _)
sendAll(w, targets, message) ==
  IF targets = << >> THEN w
  ELSE sendAll(sendToClient(w, Head(targets), message), Tail(targets), message)

\* broadcastToGame that ignores the exclusion list
\* broadcastToGame that sends to the players of every game
broadcastToGame_EveryGame(w, gameId, message, excludePlayerIds) ==
  sendAll(w,
    SetToSeq({c \in DOMAIN w.clients :
                /\ w.clients[c].playerId # Undefined
                /\ w.clients[c].playerId \notin excludePlayerIds}),
    message)

broadcastToGame_NoExclude(w, gameId, message, excludePlayerIds) ==
  sendAll(w,
    SetToSeq({c \in DOMAIN w.clients :
                /\ w.clients[c].gameId = gameId
                /\ w.clients[c].playerId # Undefined}),
    message)

broadcastToGame(w, gameId, message, excludePlayerIds) ==
  sendAll(w,
    SetToSeq({c \in DOMAIN w.clients :
                /\ w.clients[c].gameId = gameId
                /\ w.clients[c].playerId # Undefined
                /\ w.clients[c].playerId \notin excludePlayerIds}),
    message)

\* ----------------------------------------------------------------- timer
startResourceUpdates(w) == [w EXCEPT !.resourceUpdateInterval = TRUE]

stopResourceUpdates(w) == [w EXCEPT !.resourceUpdateInterval = FALSE]

\* ------------------------------------------------------------------ join
\* firstAvailableColor that picks the palette entry at the player count
firstAvailableColor_ByCount(game, randomColor) ==
  LET count == Cardinality(DOMAIN game.players)
  IN IF count < Len(colors) THEN colors[count + 1] ELSE randomColor

firstAvailableColor(game, randomColor) ==
  LET assignedColors == {game.players[p].color : p \in DOMAIN game.players}
      availableColors == {i \in DOMAIN colors : colors[i] \notin assignedColors}
  IN IF availableColors # {}
     THEN colors[CHOOSE i \in availableColors : \A j \in availableColors : i <= j]
     ELSE randomColor

newGame(gameId) ==
  [id |-> gameId, players |-> EmptyMap, stateOwnerships |-> EmptyMap]

\* playerId is the value uuidv4() returns, randomColor what Math.random() yields
handleJoinGame(w, clientId, message, playerId, randomColor) ==
  LET gameId == message.gameId
      w0 == IF gameId \in DOMAIN w.games THEN w
            ELSE [w EXCEPT !.games = Put(@, gameId, newGame(gameId))]
      player == [id |-> playerId,
                 color |-> firstAvailableColor(w0.games[gameId], randomColor),
                 resources |-> INITIAL_RESOURCES]
      w1 == [w0 EXCEPT !.games[gameId].players = Put(@, playerId, player),
                       !.clients[clientId] =
                          [gameId |-> gameId, playerId |-> playerId],
                       !.last.gameId = gameId,
                       !.last.playerId = playerId,
                       !.last.outcome = "applied"]
      w2 == sendToClient(w1, clientId,
              [type |-> GAME_STATE, gameId |-> gameId,
               instance |-> w1.games[gameId]])
      w3 == broadcastToGame(w2, gameId,
              [type |-> PLAYER_JOINED, gameId |-> gameId, player |-> player],
              {playerId})
  IN IF clientId \notin DOMAIN w.clients THEN w
     ELSE startResourceUpdates(w3)

\* ----------------------------------------------------------------- leave
\* handlePlayerLeave that keeps a game whose last player has left
handlePlayerLeave_KeepGame(w, gameId, playerId) ==
  IF gameId \notin DOMAIN w.games THEN w
  ELSE
    LET w1 ==
          IF playerId \in DOMAIN w.games[gameId].players
          THEN broadcastToGame(
                 [w EXCEPT !.games[gameId].players = Del(@, playerId)],
                 gameId,
                 [type |-> PLAYER_LEFT, gameId |-> gameId,
                  playerId |-> playerId], {})
          ELSE w
    IN [w1 EXCEPT !.clients =
          [c \in DOMAIN w1.clients |->
             IF /\ w1.clients[c].playerId = playerId
                /\ w1.clients[c].gameId = gameId
             THEN [gameId |-> Undefined, playerId |-> Undefined]
             ELSE w1.clients[c]]]

handlePlayerLeave(w, gameId, playerId) ==
  IF gameId \notin DOMAIN w.games THEN w
  ELSE
    LET w1 ==
          IF playerId \in DOMAIN w.games[gameId].players
          THEN LET wa == [w EXCEPT !.games[gameId].players = Del(@, playerId)]
                   wb == broadcastToGame(wa, gameId,
                           [type |-> PLAYER_LEFT, gameId |-> gameId,
                            playerId |-> playerId], {})
               IN IF DOMAIN wb.games[gameId].players = {}
                  THEN [wb EXCEPT !.games = Del(@, gameId)]
                  ELSE wb
          ELSE w
    IN [w1 EXCEPT !.clients =
          [c \in DOMAIN w1.clients |->
             IF /\ w1.clients[c].playerId = playerId
                /\ w1.clients[c].gameId = gameId
             THEN [gameId |-> Undefined, playerId |-> Undefined]
             ELSE w1.clients[c]]]

\* ----------------------------------------------------------------- claim
NoError == ""

\* claimError without the ownership check
claimError_NoOwnerCheck(game, playerId, stateId) ==
  IF game.players[playerId].resources < CLAIM_COST
  THEN ErrNotEnoughClaim
  ELSE NoError

\* claimError with the two checks in the other order
claimError_OwnerFirst(game, playerId, stateId) ==
  IF /\ stateId \in DOMAIN game.stateOwnerships
     /\ game.stateOwnerships[stateId].ownerId # Undefined
  THEN ErrAlreadyClaimed
  ELSE IF game.players[playerId].resources < CLAIM_COST
  THEN ErrNotEnoughClaim
  ELSE NoError

\* the validation of handleClaimState: the error it reports, if any
claimError(game, playerId, stateId) ==
  IF game.players[playerId].resources < CLAIM_COST
  THEN ErrNotEnoughClaim
  ELSE IF /\ stateId \in DOMAIN game.stateOwnerships
          /\ game.stateOwnerships[stateId].ownerId # Undefined
  THEN ErrAlreadyClaimed
  ELSE NoError

\* applyClaim that records the owner without deducting the cost
applyClaim_NoDeduct(game, playerId, stateId) ==
  [game EXCEPT
     !.stateOwnerships =
        Put(@, stateId, [stateId |-> stateId, ownerId |-> playerId])]

\* the mutation of handleClaimState: deduct the cost, record the owner
applyClaim(game, playerId, stateId) ==
  [game EXCEPT
     !.players[playerId].resources = @ - CLAIM_COST,
     !.stateOwnerships =
        Put(@, stateId, [stateId |-> stateId, ownerId |-> playerId])]

handleClaimState(w, gameId, playerId, stateId) ==
  IF gameId \notin DOMAIN w.games THEN w
  ELSE
    LET game == w.games[gameId] IN
    IF playerId \notin DOMAIN game.players THEN w
    ELSE IF claimError(game, playerId, stateId) # NoError
    THEN sendErrorToPlayer([w EXCEPT !.last.outcome = "rejected"],
                           gameId, playerId,
                           claimError(game, playerId, stateId))
    ELSE
      LET w1 == [w EXCEPT
                   !.games[gameId] = applyClaim(game, playerId, stateId),
                   !.last.outcome = "applied"]
      IN broadcastToGame(w1, gameId,
           [type |-> STATE_CLAIMED, gameId |-> gameId, stateId |-> stateId,
            playerId |-> playerId], {})

\* ---------------------------------------------------------------- attack
\* attackError without the resource check
attackError_NoCostCheck(game, attackerId, stateId, extraResources) ==
  IF \/ stateId \notin DOMAIN game.stateOwnerships
     \/ game.stateOwnerships[stateId].ownerId = Undefined
     \/ game.stateOwnerships[stateId].ownerId = attackerId
  THEN ErrInvalidTarget
  ELSE NoError

\* attackError with the resource check made first
attackError_CostFirst(game, attackerId, stateId, extraResources) ==
  IF game.players[attackerId].resources < ATTACK_BASE_COST + extraResources
  THEN ErrNotEnoughAttack
  ELSE IF \/ stateId \notin DOMAIN game.stateOwnerships
          \/ game.stateOwnerships[stateId].ownerId = Undefined
          \/ game.stateOwnerships[stateId].ownerId = attackerId
  THEN ErrInvalidTarget
  ELSE NoError

\* the validation of handleAttackState: the error it reports, if any
attackError(game, attackerId, stateId, extraResources) ==
  IF \/ stateId \notin DOMAIN game.stateOwnerships
     \/ game.stateOwnerships[stateId].ownerId = Undefined
     \/ game.stateOwnerships[stateId].ownerId = attackerId
  THEN ErrInvalidTarget
  ELSE IF game.players[attackerId].resources
            < ATTACK_BASE_COST + extraResources
  THEN ErrNotEnoughAttack
  ELSE NoError

attackerStrengthOf(extraResources) == 1 + extraResources

defenderStrengthOf == 1

\* attackSucceeds with ties going to the attacker
attackSucceeds_Ties(attackerStrength, defenderStrength) ==
  attackerStrength >= defenderStrength

attackSucceeds(attackerStrength, defenderStrength) ==
  attackerStrength > defenderStrength

\* applyAttack that charges the attacker only for a successful attack
applyAttack_ChargeOnSuccess(game, attackerId, stateId, totalCost, success) ==
  IF success
  THEN [game EXCEPT
          !.players[attackerId].resources = @ - totalCost,
          !.stateOwnerships =
             Put(@, stateId, [stateId |-> stateId, ownerId |-> attackerId])]
  ELSE game

\* the mutation of handleAttackState: deduct the cost, transfer on success
applyAttack(game, attackerId, stateId, totalCost, success) ==
  LET game1 == [game EXCEPT !.players[attackerId].resources = @ - totalCost]
  IN IF success
     THEN [game1 EXCEPT !.stateOwnerships =
             Put(@, stateId, [stateId |-> stateId, ownerId |-> attackerId])]
     ELSE game1

attackedMessage(gameId, stateId, attackerId, defenderId, success) ==
  [type |-> STATE_ATTACKED, gameId |-> gameId, stateId |-> stateId,
   attackerId |-> attackerId, defenderId |-> defenderId, success |-> success]

handleAttackState(w, gameId, attackerId, stateId, extraResources) ==
  IF gameId \notin DOMAIN w.games THEN w
  ELSE
    LET game == w.games[gameId] IN
    IF attackerId \notin DOMAIN game.players THEN w
    ELSE IF attackError(game, attackerId, stateId, extraResources) # NoError
    THEN sendErrorToPlayer(
           [w EXCEPT !.last.outcome = "rejected"],
           gameId, attackerId,
           attackError(game, attackerId, stateId, extraResources))
    ELSE
      LET defenderId == game.stateOwnerships[stateId].ownerId
          totalCost == ATTACK_BASE_COST + extraResources
          attackerStrength == attackerStrengthOf(extraResources)
          defenderStrength == defenderStrengthOf
          success == attackSucceeds(attackerStrength, defenderStrength)
          w1 == [w EXCEPT
                   !.games[gameId] =
                      applyAttack(game, attackerId, stateId, totalCost, success),
                   !.last.outcome = "applied",
                   !.last.defenderId = defenderId,
                   !.last.totalCost = totalCost,
                   !.last.attackerStrength = attackerStrength,
                   !.last.defenderStrength = defenderStrength,
                   !.last.success = success]
      IN broadcastToGame(w1, gameId,
           attackedMessage(gameId, stateId, attackerId, defenderId, success),
           {})

\* ------------------------------------------------------- resource accrual
\* ownedStates that counts every owned region of the game
ownedStates_AnyOwner(game, playerId) ==
  Cardinality({s \in DOMAIN game.stateOwnerships :
                 game.stateOwnerships[s].ownerId # Undefined})

ownedStates(game, playerId) ==
  Cardinality({s \in DOMAIN game.stateOwnerships :
                 game.stateOwnerships[s].ownerId = playerId})

updateGameResources(w, gameId) ==
  LET game == w.games[gameId]
      players2 == [p \in DOMAIN game.players |->
                     [game.players[p] EXCEPT !.resources =
                        @ + ownedStates(game, p) * RESOURCE_GAIN_PER_STATE]]
      w1 == [w EXCEPT !.games[gameId].players = players2]
  IN broadcastToGame(w1, gameId,
       [type |-> RESOURCES_UPDATED, gameId |-> gameId,
        playerResources |-> [p \in DOMAIN players2 |-> players2[p].resources]],
       {})

RECURSIVE updateEach(_, _)
updateEach(w, gameIds) ==
  IF gameIds = << >> THEN w
  ELSE updateEach(updateGameResources(w, Head(gameIds)), Tail(gameIds))

updateResources(w) ==
  IF DOMAIN w.games = {} THEN w
  ELSE updateEach(w, SetToSeq(DOMAIN w.games))

\* -------------------------------------------------------------- dispatch
\* handleMessage that acts for the game and player named in the message
handleMessage_TrustsBody(w, clientId, message, playerId, randomColor) ==
  IF clientId \notin DOMAIN w.clients THEN w
  ELSE
    LET client == w.clients[clientId]
        joined == client.gameId # Undefined /\ client.playerId # Undefined
        w0 == [w EXCEPT !.last =
                 [NoLast EXCEPT !.op = message.type,
                                !.clientId = clientId,
                                !.gameId = client.gameId,
                                !.playerId = client.playerId,
                                !.stateId = message.stateId,
                                !.extraResources = message.extraResources,
                                !.bodyGameId = message.gameId,
                                !.bodyPlayerId = message.playerId,
                                !.outcome = "ignored"]]
    IN CASE message.type = JOIN_GAME ->
              handleJoinGame(w0, clientId, message, playerId, randomColor)
         [] message.type = LEAVE_GAME ->
              IF joined
              THEN handlePlayerLeave([w0 EXCEPT !.last.outcome = "applied"],
                                     client.gameId, client.playerId)
              ELSE w0
         [] message.type = CLAIM_STATE ->
              IF joined
              THEN handleClaimState(w0, message.gameId, message.playerId,
                                    message.stateId)
              ELSE w0
         [] message.type = ATTACK_STATE ->
              IF joined
              THEN handleAttackState(w0, message.gameId, message.playerId,
                                     message.stateId, message.extraResources)
              ELSE w0
         [] OTHER ->
              sendErrorToClient([w0 EXCEPT !.last.outcome = "rejected"],
                                clientId, ErrUnknownType)

handleMessage(w, clientId, message, playerId, randomColor) ==
  IF clientId \notin DOMAIN w.clients THEN w
  ELSE
    LET client == w.clients[clientId]
        joined == client.gameId # Undefined /\ client.playerId # Undefined
        w0 == [w EXCEPT !.last =
                 [NoLast EXCEPT !.op = message.type,
                                !.clientId = clientId,
                                !.gameId = client.gameId,
                                !.playerId = client.playerId,
                                !.stateId = message.stateId,
                                !.extraResources = message.extraResources,
                                !.bodyGameId = message.gameId,
                                !.bodyPlayerId = message.playerId,
                                !.outcome = "ignored"]]
    IN CASE message.type = JOIN_GAME ->
              handleJoinGame(w0, clientId, message, playerId, randomColor)
         [] message.type = LEAVE_GAME ->
              IF joined
              THEN handlePlayerLeave([w0 EXCEPT !.last.outcome = "applied"],
                                     client.gameId, client.playerId)
              ELSE w0
         [] message.type = CLAIM_STATE ->
              IF joined
              THEN handleClaimState(w0, client.gameId, client.playerId,
                                    message.stateId)
              ELSE w0
         [] message.type = ATTACK_STATE ->
              IF joined
              THEN handleAttackState(w0, client.gameId, client.playerId,
                                     message.stateId, message.extraResources)
              ELSE w0
         [] OTHER ->
              sendErrorToClient([w0 EXCEPT !.last.outcome = "rejected"],
                                clientId, ErrUnknownType)

\* --------------------------------------------------------------- clients
addClient(w, clientId) ==
  [w EXCEPT !.clients =
     Put(@, clientId, [gameId |-> Undefined, playerId |-> Undefined])]

removeClient(w, clientId) ==
  LET w1 == IF /\ clientId \in DOMAIN w.clients
               /\ w.clients[clientId].gameId # Undefined
               /\ w.clients[clientId].playerId # Undefined
            THEN handlePlayerLeave(w, w.clients[clientId].gameId,
                                   w.clients[clientId].playerId)
            ELSE w
      w2 == [w1 EXCEPT !.clients = Del(@, clientId)]
  IN IF DOMAIN w2.clients = {} THEN stopResourceUpdates(w2) ELSE w2

\* ------------------------------------------------------------- adjacency
\* StateOwnership.neighbors as the map geometry supplies it
Neighbors(stateId) == StateIds \ {stateId}

getAdjacentStates(stateId, game) ==
  IF stateId \notin DOMAIN game.stateOwnerships THEN {}
  ELSE {s \in DOMAIN game.stateOwnerships : s \in Neighbors(stateId)}

adjacentOwnedCount(stateId, game, playerId) ==
  Cardinality({s \in getAdjacentStates(stateId, game) :
                 game.stateOwnerships[s].ownerId = playerId})

\* ------------------------------------------------- useSupabaseRealtime
\* The hook's refs and state as one record: channelRef, isConnected,
\* connectionStatus, messageQueue, reconnectAttempts, reconnectTimeout,
\* channelNameRef.  channelName is the option of the latest render,
\* channelTopic the name the channel in channelRef was created with.
\* transmitted lists the payloads handed to channel.send, in call order,
\* sentOn the channel each of them was handed to, meantFor the channel name
\* the hook was configured with when sendMessage was called with message k;
\* sendCalls counts the sendMessage calls (message k is the k-th call);
\* delay is the wait of the latest setTimeout since reconnectAttempts was
\* last reset (0 if there was none); op names the latest callback.
VARIABLE hook

\* channelRef.current: null, a channel whose subscribe call registered the
\* status callback, or a channel whose subscribe call threw
NoChannel == "null"
Channel == "channel"
UnsubscribedChannel == "channel without callback"

\* where joinChannel's try block may throw
ThrowsAt == {"none", "channel", "subscribe"}

\* the names the channelName option takes; the hook is mounted with the first
ChannelNames == {"lobby", "game"}
NoTopic == "none"
\* the channel of a status callback that is no longer the one in channelRef
AbandonedChannel == "abandoned channel"

NewHook ==
  [channelName |-> "lobby", channelNameRef |-> "lobby",
   channelTopic |-> NoTopic, channelRef |-> NoChannel, isConnected |-> FALSE,
   connectionStatus |-> "DISCONNECTED", messageQueue |-> << >>,
   reconnectAttempts |-> 0, reconnectTimeout |-> "null",
   transmitted |-> << >>, sentOn |-> << >>, meantFor |-> << >>,
   sendCalls |-> 0, delay |-> 0, op |-> "mount",
   onErrorCalled |-> FALSE, joinStarted |-> FALSE, abandoned |-> FALSE,
   joinPromise |-> "none"]

\* the hook as a callback finds it: onErrorCalled and joinStarted tell
\* whether the callback running has called onError, has entered joinChannel
Entering(h) == [h EXCEPT !.onErrorCalled = FALSE, !.joinStarted = FALSE]

onError(h) == [h EXCEPT !.onErrorCalled = TRUE]

updateConnectionStatus(h, status) == [h EXCEPT !.connectionStatus = status]

\* processQueuedMessages that sends the newest queued message first
processQueuedMessages_Lifo(h, channel) ==
  IF Len(h.messageQueue) > 0
  THEN [h EXCEPT !.transmitted =
                   @ \o [i \in 1..Len(h.messageQueue) |->
                           h.messageQueue[Len(h.messageQueue) + 1 - i]],
                 !.sentOn = @ \o [i \in 1..Len(h.messageQueue) |-> channel],
                 !.messageQueue = << >>]
  ELSE h

\* channel is the channel of the callback that calls it
processQueuedMessages(h, channel) ==
  IF Len(h.messageQueue) > 0
  THEN [h EXCEPT !.transmitted = @ \o h.messageQueue,
                 !.sentOn = @ \o [i \in 1..Len(h.messageQueue) |-> channel],
                 !.messageQueue = << >>]
  ELSE h

\* abandoned: a channel that was given the status callback has been
\* unsubscribed and dropped; the callback still refers to the hook
cleanupChannel(h) ==
  [h EXCEPT !.channelRef = NoChannel, !.channelTopic = NoTopic,
            !.isConnected = FALSE,
            !.connectionStatus = "DISCONNECTED",
            !.abandoned = @ \/ h.channelRef = Channel]

Min(a, b) == IF a <= b THEN a ELSE b

\* getReconnectDelay without the cap
getReconnectDelay_NoCap(h) ==
  RECONNECT_INITIAL_DELAY * 2 ^ h.reconnectAttempts

getReconnectDelay(h) ==
  Min(RECONNECT_INITIAL_DELAY * 2 ^ h.reconnectAttempts, RECONNECT_MAX_DELAY)

ReconnectingStatus(h) ==
  "RECONNECTING (" \o ToString(h.reconnectAttempts + 1) \o "/"
     \o ToString(RECONNECT_MAX_ATTEMPTS) \o ")"

\* attemptReconnect that allows one attempt more
attemptReconnect_OneMore(h) ==
  IF h.reconnectAttempts > RECONNECT_MAX_ATTEMPTS
  THEN onError(updateConnectionStatus(h, "MAX_RETRIES_EXCEEDED"))
  ELSE [updateConnectionStatus(h, ReconnectingStatus(h))
          EXCEPT !.reconnectTimeout = "pending",
                 !.delay = getReconnectDelay(h)]

attemptReconnect(h) ==
  IF h.reconnectAttempts >= RECONNECT_MAX_ATTEMPTS
  THEN onError(updateConnectionStatus(h, "MAX_RETRIES_EXCEEDED"))
  ELSE [updateConnectionStatus(h, ReconnectingStatus(h))
          EXCEPT !.reconnectTimeout = "pending",
                 !.delay = getReconnectDelay(h)]

\* throwsAt: supabase.channel() throws, channel.subscribe() throws, or neither.
\* joinPromise is the promise of the latest call: the await of the channel
\* that subscribe returns ends at once, a throw rejects it
joinChannel(h, throwsAt) ==
  LET h0 == [h EXCEPT !.joinStarted = TRUE,
                      !.joinPromise = IF throwsAt = "none" THEN "resolved"
                                      ELSE "rejected"]
      h1 == updateConnectionStatus(cleanupChannel(h0), "CONNECTING")
      h2 == CASE throwsAt = "channel" -> h1
              [] throwsAt = "subscribe" ->
                   [h1 EXCEPT !.channelRef = UnsubscribedChannel,
                              !.channelTopic = h.channelNameRef]
              [] OTHER -> [h1 EXCEPT !.channelRef = Channel,
                                     !.channelTopic = h.channelNameRef]
  IN IF throwsAt = "none" THEN h2
     ELSE attemptReconnect(
            onError(updateConnectionStatus([h2 EXCEPT !.isConnected = FALSE],
                                           "ERROR")))

\* the callback given to channel.subscribe, channel the channel it was
\* given to
subscribeCallback(h, channel, status) ==
  IF status = SUBSCRIBED
  THEN processQueuedMessages(
         [updateConnectionStatus(h, "CONNECTED")
            EXCEPT !.isConnected = TRUE, !.reconnectAttempts = 0,
                   !.delay = 0],
         channel)
  ELSE IF status \in {TIMED_OUT, CLOSED, CHANNEL_ERROR}
  THEN attemptReconnect(
         updateConnectionStatus([h EXCEPT !.isConnected = FALSE],
                                "ERROR: " \o status))
  ELSE h

\* the setTimeout callback of attemptReconnect; a rejected joinChannel
\* promise makes the catch handler call attemptReconnect once more
reconnectTimeoutFires(h, throwsAt) ==
  LET h1 == joinChannel([h EXCEPT !.reconnectAttempts = @ + 1,
                                  !.reconnectTimeout = "fired"], throwsAt)
  IN IF throwsAt = "none" THEN h1 ELSE attemptReconnect(h1)

leaveChannel(h) ==
  [cleanupChannel([h EXCEPT !.reconnectTimeout = "null"])
     EXCEPT !.reconnectAttempts = 0, !.delay = 0]

\* sendMessage that also queues what it has just sent
sendMessage_SendAndQueue(h, message, throwsAt) ==
  IF h.channelRef # NoChannel /\ h.isConnected
  THEN [h EXCEPT !.transmitted = Append(@, message),
                 !.sentOn = Append(@, h.channelTopic),
                 !.meantFor = Append(@, h.channelNameRef),
                 !.messageQueue = Append(@, message)]
  ELSE
    LET h1 == [h EXCEPT !.messageQueue = Append(@, message),
                        !.meantFor = Append(@, h.channelNameRef)]
    IN IF ~h.isConnected /\ h.reconnectAttempts = 0
       THEN joinChannel(h1, throwsAt)
       ELSE h1

sendMessage(h, message, throwsAt) ==
  IF h.channelRef # NoChannel /\ h.isConnected
  THEN [h EXCEPT !.transmitted = Append(@, message),
                 !.sentOn = Append(@, h.channelTopic),
                 !.meantFor = Append(@, h.channelNameRef)]
  ELSE
    LET h1 == [h EXCEPT !.messageQueue = Append(@, message),
                        !.meantFor = Append(@, h.channelNameRef)]
    IN IF ~h.isConnected /\ h.reconnectAttempts = 0
       THEN joinChannel(h1, throwsAt)
       ELSE h1

\* the effect that follows the channelName option, run after a render in
\* which the option has changed
channelNameEffect(h, throwsAt) ==
  IF h.channelName # h.channelNameRef
  THEN LET h1 == [h EXCEPT !.channelNameRef = h.channelName]
       IN IF h.isConnected THEN joinChannel(h1, throwsAt) ELSE h1
  ELSE h

\* ------------------------------------------------ GameRealtimeProvider
\* The provider's React state as one record: gameId, currentPlayer,
\* gameInstance, onlinePlayers, connectionError, isJoining.  joinStep is
\* the await at which a running joinGame is suspended, joinGamePromise the
\* promise of the latest joinGame call, joinArg its gameId argument,
\* captured the state of the latest render, which is what the callbacks
\* created by that render read as currentPlayer, gameId and isJoining,
\* unrendered the number of callbacks run since that render,
\* subscribed whether the channel the provider joined is subscribed,
\* sending the type of the message the latest callback passed to
\* sendMessage, before the local balance when the latest claimState /
\* attackState was called, op the latest callback, event the latest
\* broadcast event the channel delivered (for a presence sync: the presence
\* state, and the players listed before it).
VARIABLE ctx

CtxPlayerIds == 1..NumCtxPlayers
CtxStateIds == 1..NumCtxStates
\* balances a RESOURCES_UPDATED event may carry
EventBalances == {7}

GAME_EVENT_TYPES ==
  {GAME_STATE, PLAYER_JOINED, PLAYER_LEFT, STATE_CLAIMED, STATE_ATTACKED,
   RESOURCES_UPDATED}

ACTION_COSTS == [CLAIM_STATE |-> 5, ATTACK_STATE_BASE |-> 10]

NoPlayer == [id |-> Undefined, resources |-> 0]
NoInstance == [present |-> FALSE, players |-> EmptyMap,
               stateOwnerships |-> EmptyMap]
NoConnectionError == "null"

NewContext ==
  [gameId |-> Undefined, currentPlayer |-> NoPlayer,
   gameInstance |-> NoInstance, onlinePlayers |-> << >>,
   connectionError |-> NoConnectionError, isJoining |-> FALSE,
   joinStep |-> "none", joinArg |-> Undefined, joinGamePromise |-> "none",
   captured |-> [currentPlayer |-> NoPlayer, gameId |-> Undefined,
                 isJoining |-> FALSE],
   unrendered |-> 0,
   subscribed |-> FALSE, sending |-> "none", before |-> 0,
   event |-> [type |-> "none"],
   op |-> "mount"]

\* handleGameMessage that records the attacker as owner after every attack
handleGameMessage_AnyAttack(c, message) ==
  CASE message.type = GAME_STATE ->
         [c EXCEPT !.gameInstance = message.instance]
    [] message.type = PLAYER_JOINED ->
         IF ~c.gameInstance.present THEN c
         ELSE [c EXCEPT !.gameInstance.players =
                          Put(@, message.player.id, message.player)]
    [] message.type = PLAYER_LEFT ->
         IF ~c.gameInstance.present THEN c
         ELSE [c EXCEPT !.gameInstance.players = Del(@, message.playerId)]
    [] message.type = STATE_CLAIMED ->
         IF ~c.gameInstance.present THEN c
         ELSE [c EXCEPT !.gameInstance.stateOwnerships =
                          Put(@, message.stateId, message.playerId)]
    [] message.type = STATE_ATTACKED ->
         IF ~c.gameInstance.present THEN c
         ELSE [c EXCEPT !.gameInstance.stateOwnerships =
                          Put(@, message.stateId, message.attackerId)]
    [] message.type = RESOURCES_UPDATED ->
         IF ~c.gameInstance.present THEN c
         ELSE [c EXCEPT !.gameInstance.players =
                 [p \in DOMAIN @ |->
                    IF p \in DOMAIN message.playerResources
                    THEN [@[p] EXCEPT !.resources = message.playerResources[p]]
                    ELSE @[p]]]
    [] message.type = ERROR ->
         [c EXCEPT !.connectionError = message.message]
    [] OTHER -> c

handleGameMessage(c, message) ==
  CASE message.type = GAME_STATE ->
         [c EXCEPT !.gameInstance = message.instance]
    [] message.type = PLAYER_JOINED ->
         IF ~c.gameInstance.present THEN c
         ELSE [c EXCEPT !.gameInstance.players =
                          Put(@, message.player.id, message.player)]
    [] message.type = PLAYER_LEFT ->
         IF ~c.gameInstance.present THEN c
         ELSE [c EXCEPT !.gameInstance.players = Del(@, message.playerId)]
    [] message.type = STATE_CLAIMED ->
         IF ~c.gameInstance.present THEN c
         ELSE [c EXCEPT !.gameInstance.stateOwnerships =
                          Put(@, message.stateId, message.playerId)]
    [] message.type = STATE_ATTACKED ->
         IF ~c.gameInstance.present \/ ~message.success THEN c
         ELSE [c EXCEPT !.gameInstance.stateOwnerships =
                          Put(@, message.stateId, message.attackerId)]
    [] message.type = RESOURCES_UPDATED ->
         IF ~c.gameInstance.present THEN c
         ELSE [c EXCEPT !.gameInstance.players =
                 [p \in DOMAIN @ |->
                    IF p \in DOMAIN message.playerResources
                    THEN [@[p] EXCEPT !.resources = message.playerResources[p]]
                    ELSE @[p]]]
    [] message.type = ERROR ->
         [c EXCEPT !.connectionError = message.message]
    [] OTHER -> c

\* the channel delivers a broadcast event: the hook listens only to the
\* event types the provider passes as eventTypes
onBroadcast(c, message) ==
  IF message.type \in GAME_EVENT_TYPES THEN handleGameMessage(c, message)
  ELSE c

\* A presence state is a sequence (the keys in Object.keys order) of
\* presence arrays; a presence is the id of its player, Undefined if the
\* presence carries no player.
RECURSIVE presencePlayers(_)
presencePlayers(state) ==
  IF state = << >> THEN << >>
  ELSE SelectSeq(Head(state), LAMBDA presence : presence # Undefined)
         \o presencePlayers(Tail(state))

\* handlePresenceSync that adds the players to the list it has
handlePresenceSync_Append(c, state) ==
  [c EXCEPT !.onlinePlayers = @ \o presencePlayers(state)]

handlePresenceSync(c, state) ==
  [c EXCEPT !.onlinePlayers = presencePlayers(state)]

JoinFailedMessage == "Failed to join game: Failed to connect"

\* joinGame up to its first await; gameId is the id the caller passes
joinGame(c, gameId) ==
  IF c.captured.isJoining THEN [c EXCEPT !.joinGamePromise = "rejected"]
  ELSE [c EXCEPT !.isJoining = TRUE, !.connectionError = NoConnectionError,
                 !.joinStep = "getSession", !.joinArg = gameId,
                 !.joinGamePromise = "pending"]

\* joinGameFailed that keeps the player and the game id
joinGameFailed_KeepsPlayer(c) ==
  [c EXCEPT !.connectionError = JoinFailedMessage,
            !.joinGamePromise = "rejected", !.isJoining = FALSE,
            !.joinStep = "none"]

\* the catch and finally blocks of joinGame
joinGameFailed(c) ==
  [c EXCEPT !.gameId = Undefined, !.currentPlayer = NoPlayer,
            !.connectionError = JoinFailedMessage,
            !.joinGamePromise = "rejected", !.isJoining = FALSE,
            !.joinStep = "none"]

\* joinGame after supabase.auth.getSession() has settled; playerId is uuidv4()
joinGameSession(c, ok, playerId) ==
  IF ok
  THEN [c EXCEPT !.currentPlayer = [id |-> playerId, resources |-> 10],
                 !.gameId = c.joinArg, !.joinStep = "joinChannel",
                 !.subscribed = FALSE]
  ELSE joinGameFailed(c)

\* joinGame after the race of joinChannel() and the connection timeout has
\* settled: trackPresence and sendMessage(PLAYER_JOINED), or the catch block
joinGameChannel(c, ok) ==
  IF ok
  THEN [c EXCEPT !.sending = PLAYER_JOINED, !.joinGamePromise = "resolved",
                 !.isJoining = FALSE, !.joinStep = "none",
                 !.subscribed = TRUE]
  ELSE joinGameFailed(c)

leaveGame(c) ==
  IF c.captured.currentPlayer # NoPlayer /\ c.captured.gameId # Undefined
  THEN [c EXCEPT !.sending = PLAYER_LEFT, !.subscribed = FALSE,
                 !.gameId = Undefined, !.currentPlayer = NoPlayer,
                 !.gameInstance = NoInstance]
  ELSE c

CannotClaim == "Cannot claim state: Not connected to a game"
CannotAttack == "Cannot attack state: Not connected to a game"
NotEnoughToClaim == "Not enough resources to claim state. Need 5 resources."
NotEnoughToAttack(totalCost) ==
  "Not enough resources for attack. Need " \o ToString(totalCost)
     \o " resources."

claimState(c, stateId) ==
  IF c.captured.currentPlayer = NoPlayer \/ c.captured.gameId = Undefined
  THEN [c EXCEPT !.connectionError = CannotClaim]
  ELSE IF c.captured.currentPlayer.resources < ACTION_COSTS.CLAIM_STATE
  THEN [c EXCEPT !.connectionError = NotEnoughToClaim]
  ELSE [c EXCEPT !.sending = CLAIM_STATE,
                 !.before = c.currentPlayer.resources,
                 !.currentPlayer.resources = @ - ACTION_COSTS.CLAIM_STATE]

attackState(c, stateId, extraResources) ==
  LET totalCost == ACTION_COSTS.ATTACK_STATE_BASE + extraResources
  IN IF c.captured.currentPlayer = NoPlayer \/ c.captured.gameId = Undefined
     THEN [c EXCEPT !.connectionError = CannotAttack]
     ELSE IF c.captured.currentPlayer.resources < totalCost
     THEN [c EXCEPT !.connectionError = NotEnoughToAttack(totalCost)]
     ELSE [c EXCEPT !.sending = ATTACK_STATE,
                    !.before = c.currentPlayer.resources,
                    !.currentPlayer.resources = @ - totalCost]

\* ------------------------------------------------------ useGameRealtime
\* The hook's React state as one record: mapStates (a list of regions with
\* their owners), players (a list), playerSelections (player id to selected
\* regions), isLoading; op names the latest callback, event the latest broadcast event
\* handled, repeated whether that event is the one handled just before it.
VARIABLE realtime

vars == << serverVars, hook, ctx, realtime >>

NewRealtime ==
  [mapStates |-> << >>, players |-> << >>, playerSelections |-> EmptyMap,
   isLoading |-> TRUE, op |-> "mount", event |-> [eventType |-> "none"], repeated |-> FALSE]

\* the updater of PLAYER_JOINED without the test for a player already listed
addPlayer_NoExistsCheck(prevPlayers, player) == Append(prevPlayers, player)

\* the updater handleMessage passes to setPlayers for PLAYER_JOINED
addPlayer(prevPlayers, player) ==
  IF \E i \in DOMAIN prevPlayers : prevPlayers[i].id = player.id
  THEN prevPlayers
  ELSE Append(prevPlayers, player)

\* a payload field is taken when JavaScript reads it as true: an id that is
\* set, a number other than 0
Truthy(x) == x # Undefined

useGameRealtimeHandleMessage(r, eventType, payload) ==
  CASE eventType \in {STATE_CLAIMED, STATE_ATTACKED} ->
         IF Truthy(payload.stateId) /\ Truthy(payload.playerId)
         THEN [r EXCEPT !.mapStates =
                 [i \in DOMAIN @ |->
                    IF /\ @[i].stateId = payload.stateId
                       /\ eventType = STATE_CLAIMED \/ payload.success
                    THEN [@[i] EXCEPT !.ownerId = payload.playerId]
                    ELSE @[i]]]
         ELSE r
    [] eventType = STATE_SELECTION ->
         IF Truthy(payload.playerId)
         THEN [r EXCEPT !.playerSelections =
                          Put(@, payload.playerId, payload.selectedStates)]
         ELSE r
    [] eventType = PLAYER_JOINED ->
         IF payload.player # NoPlayer
         THEN [r EXCEPT !.players = addPlayer(@, payload.player)]
         ELSE r
    [] eventType = PLAYER_LEFT ->
         IF Truthy(payload.playerId)
         THEN [r EXCEPT !.players =
                          SelectSeq(@, LAMBDA p : p.id # payload.playerId),
                        !.playerSelections = Del(@, payload.playerId)]
         ELSE r
    [] eventType = RESOURCES_UPDATED ->
         IF Truthy(payload.playerId) /\ Truthy(payload.resources)
         THEN [r EXCEPT !.players =
                 [i \in DOMAIN @ |->
                    IF @[i].id = payload.playerId
                    THEN [@[i] EXCEPT !.resources = payload.resources]
                    ELSE @[i]]]
         ELSE r
    [] OTHER -> r

\* fetchGameData has read the game instance row
fetchGameData(r, data) ==
  [r EXCEPT !.mapStates = data.states, !.players = data.players,
            !.isLoading = FALSE]

\* --------------------------------------------------------------- actions
Message(type, gameId, stateId, extraResources) ==
  [type |-> type, gameId |-> gameId, playerId |-> Undefined,
   stateId |-> stateId, extraResources |-> extraResources]

\* a message whose body names a game and a player of the sender's choosing
ForgedMessage(type, gameId, playerId, stateId, extraResources) ==
  [Message(type, gameId, stateId, extraResources) EXCEPT !.playerId = playerId]

WithinBounds(w) ==
  \A g \in DOMAIN w.games : \A p \in DOMAIN w.games[g].players :
     w.games[g].players[p].resources <= MaxResources

Apply(w) ==
  /\ WithinBounds(w)
  /\ games' = w.games
  /\ clients' = w.clients
  /\ resourceUpdateInterval' = w.resourceUpdateInterval
  /\ sent' = w.sent
  /\ last' = w.last
  /\ UNCHANGED << hook, ctx, realtime >>

Init ==
  /\ games = EmptyMap
  /\ clients = EmptyMap
  /\ resourceUpdateInterval = TRUE
  /\ nextId = 1
  /\ sent = << >>
  /\ last = NoLast
  /\ hook = NewHook
  /\ ctx = NewContext
  /\ realtime = NewRealtime

\* wss.on("connection")
Connect ==
  \E c \in ClientIds \ DOMAIN clients :
    /\ Apply([addClient(World, c) EXCEPT !.last.op = "connect",
                                         !.last.clientId = c])
    /\ UNCHANGED nextId

\* socket.on("close") / socket.on("error")
Disconnect ==
  \E c \in DOMAIN clients :
    /\ Apply(removeClient([World EXCEPT !.last.op = "disconnect",
                                        !.last.clientId = c,
                                        !.last.gameId = clients[c].gameId,
                                        !.last.playerId = clients[c].playerId],
                          c))
    /\ UNCHANGED nextId

JoinGame ==
  \E c \in DOMAIN clients, g \in GameIds, rc \in RandomColors :
    /\ nextId <= MaxJoins
    /\ Apply(handleMessage(World, c, Message(JOIN_GAME, g, Undefined, 0),
                           nextId, rc))
    /\ nextId' = nextId + 1

LeaveGame ==
  \E c \in DOMAIN clients :
    /\ Apply(handleMessage(World, c,
                           Message(LEAVE_GAME, clients[c].gameId, Undefined, 0),
                           Undefined, "none"))
    /\ UNCHANGED nextId

ClaimState ==
  \E c \in DOMAIN clients, s \in StateIds :
    /\ Apply(handleMessage(World, c,
                           Message(CLAIM_STATE, clients[c].gameId, s, 0),
                           Undefined, "none"))
    /\ UNCHANGED nextId

AttackState ==
  \E c \in DOMAIN clients, s \in StateIds, x \in ExtraValues :
    /\ Apply(handleMessage(World, c,
                           Message(ATTACK_STATE, clients[c].gameId, s, x),
                           Undefined, "none"))
    /\ UNCHANGED nextId

UnknownMessage ==
  \E c \in DOMAIN clients :
    /\ Apply(handleMessage(World, c,
                           Message(UNKNOWN_TYPE, clients[c].gameId, Undefined, 0),
                           Undefined, "none"))
    /\ UNCHANGED nextId

\* the setInterval callback
ResourceTick ==
  /\ resourceUpdateInterval = TRUE
  /\ Apply(updateResources([World EXCEPT !.last.op = "tick"]))
  /\ UNCHANGED nextId

Next ==
  \/ Connect
  \/ Disconnect
  \/ JoinGame
  \/ LeaveGame
  \/ ClaimState
  \/ AttackState
  \/ UnknownMessage
  \/ ResourceTick

Spec == Init /\ [][Next]_vars


\* ------------------------------------------- palette specification
\* joins and leaves of a single game, with enough joins to use up the palette
JoinGameColors ==
  \E c \in DOMAIN clients, rc \in RandomColors :
    /\ nextId <= MaxColorJoins
    /\ Apply(handleMessage(World, c, Message(JOIN_GAME, 1, Undefined, 0),
                           nextId, rc))
    /\ nextId' = nextId + 1

NextColors ==
  \/ Connect
  \/ Disconnect
  \/ JoinGameColors
  \/ LeaveGame

SpecColors == Init /\ [][NextColors]_vars
\* ------------------------------------- malformed-message specification
\* socket.on("message") when JSON.parse throws: the catch block replies and
\* the GameManager is never called
InvalidJson ==
  \E c \in DOMAIN clients :
    /\ Apply(sendToClient([World EXCEPT !.last.op = INVALID_JSON,
                                        !.last.clientId = c,
                                        !.last.gameId = clients[c].gameId,
                                        !.last.playerId = clients[c].playerId],
                          c, [type |-> ERROR, message |-> ErrInvalidFormat]))
    /\ UNCHANGED nextId

\* a CLAIM_STATE message that has no stateId field
ClaimWithoutStateId ==
  \E c \in DOMAIN clients :
    /\ Apply(handleMessage(World, c,
                           Message(CLAIM_STATE, clients[c].gameId, Undefined, 0),
                           Undefined, "none"))
    /\ UNCHANGED nextId

\* an ATTACK_STATE message that has no stateId field
AttackWithoutStateId ==
  \E c \in DOMAIN clients :
    /\ Apply(handleMessage(World, c,
                           Message(ATTACK_STATE, clients[c].gameId, Undefined, 0),
                           Undefined, "none"))
    /\ UNCHANGED nextId

NextMalformed ==
  \/ Connect
  \/ Disconnect
  \/ JoinGame
  \/ LeaveGame
  \/ ClaimState
  \/ UnknownMessage
  \/ InvalidJson
  \/ ClaimWithoutStateId
  \/ AttackWithoutStateId

SpecMalformed == Init /\ [][NextMalformed]_vars

\* ------------------------------------------ forged-body specification
\* clients that put any game id and player id into the body of their
\* CLAIM_STATE, ATTACK_STATE and LEAVE_GAME messages
ForgedClaimState ==
  \E c \in DOMAIN clients, g \in GameIds, p \in PlayerIds, s \in StateIds :
    /\ Apply(handleMessage(World, c, ForgedMessage(CLAIM_STATE, g, p, s, 0),
                           Undefined, "none"))
    /\ UNCHANGED nextId

ForgedAttackState ==
  \E c \in DOMAIN clients, g \in GameIds, p \in PlayerIds, s \in StateIds :
    /\ Apply(handleMessage(World, c, ForgedMessage(ATTACK_STATE, g, p, s, 0),
                           Undefined, "none"))
    /\ UNCHANGED nextId

ForgedLeaveGame ==
  \E c \in DOMAIN clients, g \in GameIds, p \in PlayerIds :
    /\ Apply(handleMessage(World, c,
                           ForgedMessage(LEAVE_GAME, g, p, Undefined, 0),
                           Undefined, "none"))
    /\ UNCHANGED nextId

NextForged ==
  \/ Connect
  \/ Disconnect
  \/ JoinGame
  \/ ForgedLeaveGame
  \/ ForgedClaimState
  \/ ForgedAttackState

SpecForged == Init /\ [][NextForged]_vars

\* ------------------------------------------------ mirror specification
\* the provider of one client fed with everything the GameManager sends to
\* that client, in the order sent
Mirrored == 1

\* JSON.parse of a message in the provider: a GameInstance is the non-null
\* value of gameInstance, and an ownership is kept as its ownerId
received(msg) ==
  IF msg.type = GAME_STATE
  THEN [type |-> GAME_STATE,
        instance |->
          [present |-> TRUE,
           players |-> msg.instance.players,
           stateOwnerships |->
             [s \in DOMAIN msg.instance.stateOwnerships |->
                msg.instance.stateOwnerships[s].ownerId]]]
  ELSE msg

RECURSIVE deliver(_, _)
deliver(c, msgs) ==
  IF msgs = << >> THEN c
  ELSE deliver(handleGameMessage(c, received(Head(msgs).msg)), Tail(msgs))

ApplyMirror(w) ==
  /\ WithinBounds(w)
  /\ games' = w.games
  /\ clients' = w.clients
  /\ resourceUpdateInterval' = w.resourceUpdateInterval
  /\ sent' = w.sent
  /\ last' = w.last
  /\ ctx' = deliver(ctx, SelectSeq(w.sent, LAMBDA m : m.to = Mirrored))
  /\ UNCHANGED << hook, realtime >>

MirrorConnect ==
  \E c \in ClientIds \ DOMAIN clients :
    /\ ApplyMirror([addClient(World, c) EXCEPT !.last.op = "connect",
                                               !.last.clientId = c])
    /\ UNCHANGED nextId

MirrorDisconnect ==
  \E c \in DOMAIN clients :
    /\ ApplyMirror(
         removeClient([World EXCEPT !.last.op = "disconnect",
                                    !.last.clientId = c,
                                    !.last.gameId = clients[c].gameId,
                                    !.last.playerId = clients[c].playerId],
                      c))
    /\ UNCHANGED nextId

MirrorJoinGame ==
  \E c \in DOMAIN clients, g \in GameIds :
    /\ nextId <= MaxJoins
    /\ ApplyMirror(handleMessage(World, c,
                                 Message(JOIN_GAME, g, Undefined, 0),
                                 nextId, "none"))
    /\ nextId' = nextId + 1

MirrorLeaveGame ==
  \E c \in DOMAIN clients :
    /\ ApplyMirror(handleMessage(World, c,
                     Message(LEAVE_GAME, clients[c].gameId, Undefined, 0),
                     Undefined, "none"))
    /\ UNCHANGED nextId

MirrorClaimState ==
  \E c \in DOMAIN clients, s \in StateIds :
    /\ ApplyMirror(handleMessage(World, c,
                     Message(CLAIM_STATE, clients[c].gameId, s, 0),
                     Undefined, "none"))
    /\ UNCHANGED nextId

\* extraResources of a failed and of a successful attack
MirrorExtras == {0, 1}

MirrorAttackState ==
  \E c \in DOMAIN clients, s \in StateIds, x \in MirrorExtras :
    /\ ApplyMirror(handleMessage(World, c,
                     Message(ATTACK_STATE, clients[c].gameId, s, x),
                     Undefined, "none"))
    /\ UNCHANGED nextId

NextMirror ==
  \/ MirrorConnect
  \/ MirrorDisconnect
  \/ MirrorJoinGame
  \/ MirrorLeaveGame
  \/ MirrorClaimState
  \/ MirrorAttackState

SpecMirror == Init /\ [][NextMirror]_vars

\* ------------------------------------------------- hook specification
\* the hook's callbacks; the GameManager is left alone
ApplyHook(h, op) ==
  /\ hook' = [h EXCEPT !.op = op]
  /\ UNCHANGED << serverVars, ctx, realtime >>

\* the component calls sendMessage with its next message
SendMessage ==
  \E throwsAt \in ThrowsAt :
    /\ hook.sendCalls < MaxMessages
    /\ ApplyHook(sendMessage([Entering(hook) EXCEPT !.sendCalls = @ + 1],
                             hook.sendCalls + 1, throwsAt),
                 "sendMessage")

\* the component (or the auto-join effect) calls joinChannel
JoinChannel ==
  \E throwsAt \in ThrowsAt :
    /\ ApplyHook(joinChannel(Entering(hook), throwsAt), "joinChannel")

\* the component calls leaveChannel (also the effect's cleanup)
LeaveChannel ==
  /\ ApplyHook(leaveChannel(Entering(hook)), "leaveChannel")

\* the current channel reports a subscription status
ChannelStatus ==
  \E status \in REALTIME_SUBSCRIBE_STATES :
    /\ hook.channelRef = Channel
    /\ ApplyHook(subscribeCallback(Entering(hook), hook.channelTopic, status),
                 status)

\* the pending reconnection timeout elapses
ReconnectTimeout ==
  \E throwsAt \in ThrowsAt :
    /\ hook.reconnectTimeout = "pending"
    /\ ApplyHook(reconnectTimeoutFires(Entering(hook), throwsAt),
                 "reconnectTimeout")

\* the component renders the hook with another channelName
ChannelNameChanges ==
  \E channelName \in ChannelNames \ {hook.channelName},
     throwsAt \in ThrowsAt :
    /\ ApplyHook(channelNameEffect(
                   [Entering(hook) EXCEPT !.channelName = channelName],
                   throwsAt),
                 "channelName")

\* a channel the hook has unsubscribed and dropped reports a status to the
\* callback it was subscribed with
AbandonedChannelStatus ==
  \E status \in REALTIME_SUBSCRIBE_STATES :
    /\ hook.abandoned
    /\ ApplyHook(subscribeCallback(Entering(hook), AbandonedChannel, status),
                 "abandoned channel")

NextHook ==
  \/ SendMessage
  \/ JoinChannel
  \/ LeaveChannel
  \/ ChannelStatus
  \/ ReconnectTimeout

SpecHook == Init /\ [][NextHook]_vars

\* the hook with late callbacks of abandoned channels
NextHookAbandoned ==
  \/ SendMessage
  \/ JoinChannel
  \/ LeaveChannel
  \/ ChannelStatus
  \/ ReconnectTimeout
  \/ AbandonedChannelStatus

SpecHookAbandoned == Init /\ [][NextHookAbandoned]_vars

\* the hook under a component that changes the channelName option
NextHookNames ==
  \/ SendMessage
  \/ JoinChannel
  \/ LeaveChannel
  \/ ChannelStatus
  \/ ReconnectTimeout
  \/ ChannelNameChanges

SpecHookNames == Init /\ [][NextHookNames]_vars

\* -------------------------------------------- provider specification
\* the provider's callbacks; the GameManager and the hook are left alone
\* the provider renders with its current state
render(c) ==
  [c EXCEPT !.captured = [currentPlayer |-> c.currentPlayer,
                          gameId |-> c.gameId, isJoining |-> c.isJoining],
            !.unrendered = 0]

\* a callback runs and the provider renders
ApplyContext(c, op) ==
  /\ ctx' = render([c EXCEPT !.op = op])
  /\ UNCHANGED << serverVars, hook, realtime >>

\* a callback runs; the provider has not rendered yet
ApplyUnrendered(c, op) ==
  /\ ctx.unrendered < MaxUnrendered
  /\ ctx' = [c EXCEPT !.op = op, !.unrendered = @ + 1]
  /\ UNCHANGED << serverVars, hook, realtime >>

\* the context as a callback finds it
Called == [ctx EXCEPT !.sending = "none"]

\* events the channel may deliver to a client of the game
PlayerValues == [id : CtxPlayerIds, resources : {10}]
ResourceMaps ==
  UNION {[ids -> EventBalances] : ids \in (SUBSET CtxPlayerIds) \ {{}}}
Snapshots ==
  {[present |-> TRUE, players |-> [p \in ids |-> [id |-> p, resources |-> 10]],
    stateOwnerships |-> EmptyMap] : ids \in (SUBSET CtxPlayerIds) \ {{}}}
Events ==
  [type : {GAME_STATE}, instance : Snapshots]
    \cup [type : {PLAYER_JOINED}, player : PlayerValues]
    \cup [type : {PLAYER_LEFT}, playerId : CtxPlayerIds]
    \cup [type : {STATE_CLAIMED}, stateId : CtxStateIds, playerId : CtxPlayerIds]
    \cup [type : {STATE_ATTACKED}, stateId : CtxStateIds,
          attackerId : CtxPlayerIds, success : BOOLEAN]
    \cup [type : {RESOURCES_UPDATED}, playerResources : ResourceMaps]
    \cup [type : {ERROR}, message : {ErrAlreadyClaimed}]

\* presence arrays of at most two presences, states of at most two keys
PresenceArrays ==
  UNION {[1..n -> CtxPlayerIds \cup {Undefined}] : n \in 0..2}
PresenceStates == UNION {[1..n -> PresenceArrays] : n \in 0..2}

JoinGameCalled ==
  \E g \in GameIds :
    /\ ApplyContext(joinGame(Called, g), "joinGame")

SessionSettles ==
  \E ok \in BOOLEAN, playerId \in CtxPlayerIds :
    /\ ctx.joinStep = "getSession"
    /\ ApplyContext(joinGameSession(Called, ok, playerId), "getSession")

ChannelJoinSettles ==
  \E ok \in BOOLEAN :
    /\ ctx.joinStep = "joinChannel"
    /\ ApplyContext(joinGameChannel(Called, ok),
                    IF ok THEN "joined" ELSE "join failed")

LeaveGameCalled ==
  /\ ApplyContext(leaveGame(Called), "leaveGame")

ClaimStateCalled ==
  \E s \in CtxStateIds :
    /\ ApplyContext(claimState(Called, s), CLAIM_STATE)

AttackStateCalled ==
  \E s \in CtxStateIds, x \in {0, 1} :
    /\ ApplyContext(attackState(Called, s, x), ATTACK_STATE)

BroadcastReceived ==
  \E message \in Events :
    /\ ctx.subscribed
    /\ ApplyContext([onBroadcast(Called, message) EXCEPT !.event = message],
                    "broadcast")

PresenceSync ==
  \E state \in PresenceStates :
    /\ ApplyContext([handlePresenceSync(Called, state) EXCEPT
                       !.event = [type |-> "sync", state |-> state,
                                  listed |-> ctx.onlinePlayers]],
                    "presence sync")

\* the timer of the auto-clear effect elapses
ConnectionErrorExpires ==
  /\ ctx.connectionError # NoConnectionError
  /\ ApplyContext([Called EXCEPT !.connectionError = NoConnectionError],
                  "error cleared")

NextContext ==
  \/ JoinGameCalled
  \/ SessionSettles
  \/ ChannelJoinSettles
  \/ LeaveGameCalled
  \/ ClaimStateCalled
  \/ AttackStateCalled
  \/ BroadcastReceived
  \/ ConnectionErrorExpires

SpecContext == Init /\ [][NextContext]_vars

\* claimState and attackState called again before the provider has rendered
\* the outcome of the previous call (several calls in one event handler)
ClaimStateUnrendered ==
  \E s \in CtxStateIds :
    /\ ApplyUnrendered(claimState(Called, s), CLAIM_STATE)

AttackStateUnrendered ==
  \E s \in CtxStateIds, x \in {0, 1} :
    /\ ApplyUnrendered(attackState(Called, s, x), ATTACK_STATE)

Render ==
  /\ ctx.unrendered > 0
  /\ ApplyContext(ctx, "render")

NextContextUnrendered ==
  \/ JoinGameCalled
  \/ SessionSettles
  \/ ChannelJoinSettles
  \/ LeaveGameCalled
  \/ ClaimStateUnrendered
  \/ AttackStateUnrendered
  \/ Render
  \/ ConnectionErrorExpires

SpecContextUnrendered == Init /\ [][NextContextUnrendered]_vars

\* presence syncs alone: nothing else reads or writes onlinePlayers
NextPresence == PresenceSync

SpecPresence == Init /\ [][NextPresence]_vars

\* --------------------------------------- useGameRealtime specification
ApplyRealtime(r, op) ==
  /\ realtime' = [r EXCEPT !.op = op]
  /\ UNCHANGED << serverVars, hook, ctx >>

\* balances a RESOURCES_UPDATED payload may carry
PayloadResources == {0, 7}

\* the payloads of the events the hook subscribes to
RealtimeEvents ==
  [eventType : {STATE_CLAIMED}, stateId : CtxStateIds,
   playerId : CtxPlayerIds, success : {FALSE}]
    \cup [eventType : {STATE_ATTACKED}, stateId : CtxStateIds,
          playerId : CtxPlayerIds, success : BOOLEAN]
    \cup [eventType : {STATE_SELECTION}, playerId : CtxPlayerIds,
          selectedStates : SUBSET CtxStateIds]
    \cup [eventType : {PLAYER_JOINED}, player : PlayerValues \cup {NoPlayer}]
    \cup [eventType : {PLAYER_LEFT}, playerId : CtxPlayerIds]
    \cup [eventType : {RESOURCES_UPDATED}, playerId : CtxPlayerIds,
          resources : PayloadResources]

\* rows the game_instances table may hold for the game
GameData ==
  [states : {[s \in CtxStateIds |-> [stateId |-> s, ownerId |-> Undefined]]},
   players : {<< >>} \cup {<< p >> : p \in PlayerValues}]

FetchGameData ==
  \E data \in GameData :
    /\ realtime.isLoading
    /\ ApplyRealtime(fetchGameData(realtime, data), "fetchGameData")

RealtimeEvent ==
  \E payload \in RealtimeEvents :
    /\ ApplyRealtime(
         [useGameRealtimeHandleMessage(realtime, payload.eventType, payload)
            EXCEPT !.event = payload,
                   !.repeated = (realtime.op = "event"
                                   /\ payload = realtime.event)],
         "event")

NextRealtime ==
  \/ FetchGameData
  \/ RealtimeEvent

SpecRealtime == Init /\ [][NextRealtime]_vars

\* ============================================================ properties
\* views of a registry value gs (games or games')
ResourcesIn(gs, g, p) == gs[g].players[p].resources

OwnerIn(gs, g, s) ==
  IF g \in DOMAIN gs /\ s \in DOMAIN gs[g].stateOwnerships
  THEN gs[g].stateOwnerships[s].ownerId
  ELSE Undefined

MsgsTo(seq, c) == SelectSeq(seq, LAMBDA m : m.to = c)

ErrorsIn(seq) ==
  {seq[i].msg.message : i \in {j \in DOMAIN seq : seq[j].msg.type = ERROR}}

\* the step handles a message of type t sent by a client that has joined:
\* Sender, SenderGame, SenderPlayer and Target describe it in the state before
Sender == last'.clientId
SenderGame == clients[Sender].gameId
SenderPlayer == clients[Sender].playerId
Target == last'.stateId

Handled(t) ==
  /\ last'.op = t
  /\ Sender \in DOMAIN clients
  /\ SenderGame \in DOMAIN games
  /\ SenderPlayer \in DOMAIN games[SenderGame].players

TargetOwner == OwnerIn(games, SenderGame, Target)
SenderResources == ResourcesIn(games, SenderGame, SenderPlayer)
AttackCost == 10 + last'.extraResources

\* C1: every region's ownerId is null or a player present in the same game
OwnersArePlayers ==
  \A g \in DOMAIN games : \A s \in DOMAIN games[g].stateOwnerships :
     \/ games[g].stateOwnerships[s].ownerId = Undefined
     \/ games[g].stateOwnerships[s].ownerId \in DOMAIN games[g].players

\* C2: after every step every player's resources are >= 0, and a claim or
\* attack the sender cannot pay for leaves the registry as it was
ResourcesNeverNegative ==
  [][ /\ \A g \in DOMAIN games' : \A p \in DOMAIN games'[g].players :
           ResourcesIn(games', g, p) >= 0
      /\ (Handled(CLAIM_STATE) /\ SenderResources < 5) => games' = games
      /\ (Handled(ATTACK_STATE) /\ SenderResources < AttackCost)
            => games' = games ]_vars

AttackRejectedForCost ==
  /\ last.op = ATTACK_STATE
  /\ last.outcome = "rejected"
  /\ ErrNotEnoughAttack \in ErrorsIn(sent)
  /\ ResourcesIn(games, last.gameId, last.playerId) < 10 + last.extraResources

\* C3: when a claim of a neutral region has just been applied and the next
\* message handled is another player's claim of the same region, the second
\* claim is rejected: the first claimant stays the owner and nobody's
\* resources change in the second step
ClaimsSerialized ==
  [][ ( /\ last.op = CLAIM_STATE
        /\ last.outcome = "applied"
        /\ Handled(CLAIM_STATE)
        /\ SenderGame = last.gameId
        /\ Target = last.stateId
        /\ SenderPlayer # last.playerId )
      => /\ last'.outcome = "rejected"
         /\ OwnerIn(games', SenderGame, Target) = last.playerId
         /\ games' = games ]_vars

SecondClaimRejected ==
  /\ last.op = CLAIM_STATE
  /\ last.outcome = "rejected"
  /\ ErrAlreadyClaimed \in ErrorsIn(sent)
  /\ OwnerIn(games, last.gameId, last.stateId) # last.playerId
  /\ OwnerIn(games, last.gameId, last.stateId)
        \in DOMAIN games[last.gameId].players
  /\ ResourcesIn(games, last.gameId,
                 OwnerIn(games, last.gameId, last.stateId)) = 5
  /\ ResourcesIn(games, last.gameId, last.playerId) = 10

\* C4 as stated: a claim of an owned region is always answered with
\* "State is already claimed" and changes nothing
OwnedClaimAlwaysAlreadyClaimed ==
  [][ (Handled(CLAIM_STATE) /\ TargetOwner # Undefined)
      => /\ ErrorsIn(sent') = {ErrAlreadyClaimed}
         /\ games' = games ]_vars

\* C4 amended: a claim of an owned region always fails and changes nothing;
\* the error is "State is already claimed" when the claimant holds at least
\* 5 resources and "Not enough resources to claim state" otherwise
OwnedClaimAlwaysRejected ==
  [][ (Handled(CLAIM_STATE) /\ TargetOwner # Undefined)
      => /\ ErrorsIn(sent') =
              {IF SenderResources >= 5 THEN ErrAlreadyClaimed
                                       ELSE ErrNotEnoughClaim}
         /\ Len(sent') = 1
         /\ games' = games ]_vars

OwnedClaimByPoorPlayer ==
  /\ last.op = CLAIM_STATE
  /\ last.outcome = "rejected"
  /\ OwnerIn(games, last.gameId, last.stateId) # Undefined
  /\ ResourcesIn(games, last.gameId, last.playerId) < 5

\* C5: a claim of a neutral region by a joined player with at least 5
\* resources takes exactly 5 resources from that player, makes the player the
\* region's owner, changes no other player or region, and sends exactly one
\* STATE_CLAIMED naming region and player to every client of the game
ClaimSucceeds ==
  [][ (Handled(CLAIM_STATE) /\ SenderResources >= 5 /\ TargetOwner = Undefined)
      => /\ DOMAIN games' = DOMAIN games
         /\ clients' = clients
         /\ \A g \in DOMAIN games :
              /\ DOMAIN games'[g].players = DOMAIN games[g].players
              /\ \A p \in DOMAIN games[g].players :
                   ResourcesIn(games', g, p) =
                     IF g = SenderGame /\ p = SenderPlayer
                     THEN ResourcesIn(games, g, p) - 5
                     ELSE ResourcesIn(games, g, p)
              /\ \A s \in StateIds :
                   OwnerIn(games', g, s) =
                     IF g = SenderGame /\ s = Target
                     THEN SenderPlayer
                     ELSE OwnerIn(games, g, s)
         /\ \A c \in DOMAIN clients :
              MsgsTo(sent', c) =
                IF clients[c].gameId = SenderGame
                THEN << [to |-> c,
                         msg |-> [type |-> STATE_CLAIMED, gameId |-> SenderGame,
                                  stateId |-> Target,
                                  playerId |-> SenderPlayer]] >>
                ELSE << >> ]_vars

ClaimFromTenLeavesFive ==
  /\ last.op = CLAIM_STATE
  /\ last.outcome = "applied"
  /\ last.stateId = 1
  /\ ResourcesIn(games, last.gameId, last.playerId) = 5
  /\ OwnerIn(games, last.gameId, 1) = last.playerId
  /\ Len(sent) = 2

\* C6: an applied attack succeeds exactly when the attacker's strength is
\* strictly greater than the defender's; on equal strengths the success flag
\* of STATE_ATTACKED is false and the defender keeps the region
AttackNeedsStrictlyMore ==
  (last.op = ATTACK_STATE /\ last.outcome = "applied")
  => LET wins == last.attackerStrength > last.defenderStrength IN
     /\ sent # << >>
     /\ \A i \in DOMAIN sent :
          /\ sent[i].msg.type = STATE_ATTACKED
          /\ sent[i].msg.success = wins
     /\ OwnerIn(games, last.gameId, last.stateId) =
          IF wins THEN last.playerId ELSE last.defenderId

TiedAttackFails ==
  /\ last.op = ATTACK_STATE
  /\ last.outcome = "applied"
  /\ last.attackerStrength = last.defenderStrength
  /\ OwnerIn(games, last.gameId, last.stateId) = last.defenderId

\* C7: for an applied attack, the attacker's strength is the number of
\* regions adjacent to the target that the attacker owns plus
\* floor(extraResources / 5), the defender's strength is the number of
\* adjacent regions the defender owns, and STATE_ATTACKED carries the success
\* flag and both strengths
StrengthsFollowAdjacency ==
  (last.op = ATTACK_STATE /\ last.outcome = "applied")
  => /\ last.attackerStrength =
          adjacentOwnedCount(last.stateId, games[last.gameId], last.playerId)
          + (last.extraResources \div 5)
     /\ last.defenderStrength =
          adjacentOwnedCount(last.stateId, games[last.gameId], last.defenderId)
     /\ \A i \in DOMAIN sent :
          /\ sent[i].msg.type = STATE_ATTACKED
          /\ {"success", "attackStrength", "defenseStrength"}
                \subseteq DOMAIN sent[i].msg
          /\ sent[i].msg.success = last.success
          /\ sent[i].msg.attackStrength = last.attackerStrength
          /\ sent[i].msg.defenseStrength = last.defenderStrength

\* C8: an attack that passes validation takes exactly 10 + extraResources
\* from the attacker whether it succeeds or not; the target changes owner
\* only if the attack succeeded, and then to the attacker; the defender's
\* resources stay as they were
AttackAlwaysCharged ==
  [][ ( /\ Handled(ATTACK_STATE)
        /\ TargetOwner \notin {Undefined, SenderPlayer}
        /\ SenderResources >= AttackCost )
      => /\ ResourcesIn(games', SenderGame, SenderPlayer) =
              SenderResources - AttackCost
         /\ \A c \in DOMAIN clients' :
              clients'[c].gameId = SenderGame => MsgsTo(sent', c) # << >>
         /\ \A i \in DOMAIN sent' : sent'[i].msg.type = STATE_ATTACKED
         /\ OwnerIn(games', SenderGame, Target) # TargetOwner
              => /\ OwnerIn(games', SenderGame, Target) = SenderPlayer
                 /\ \A i \in DOMAIN sent' : sent'[i].msg.success
         /\ TargetOwner \in DOMAIN games[SenderGame].players
              => ResourcesIn(games', SenderGame, TargetOwner) =
                   ResourcesIn(games, SenderGame, TargetOwner) ]_vars

FailedAttackPaid ==
  /\ last.op = ATTACK_STATE
  /\ last.outcome = "applied"
  /\ ~last.success
  /\ last.extraResources = 0
  /\ ResourcesIn(games, last.gameId, last.playerId) = 0
  /\ OwnerIn(games, last.gameId, last.stateId) = last.defenderId

\* C9: an attack is answered with "Can only attack states owned by other
\* players" exactly when the target has no owner or is owned by the attacker,
\* also when the attacker could not pay for the attack; nothing changes then
InvalidTargetCheckedFirst ==
  [][ Handled(ATTACK_STATE)
      => /\ (ErrInvalidTarget \in ErrorsIn(sent'))
              <=> (TargetOwner \in {Undefined, SenderPlayer})
         /\ TargetOwner \in {Undefined, SenderPlayer}
              => /\ ErrorsIn(sent') = {ErrInvalidTarget}
                 /\ games' = games ]_vars

InvalidTargetWhilePoor ==
  /\ last.op = ATTACK_STATE
  /\ last.outcome = "rejected"
  /\ ErrInvalidTarget \in ErrorsIn(sent)
  /\ ResourcesIn(games, last.gameId, last.playerId) < 10 + last.extraResources

\* C10: a claim or attack that fails validation sends exactly one ERROR, to
\* the sender's client and to nobody else, and leaves players, resources,
\* ownerships, the set of games and the client bindings as they were
ValidationFailureIsLocal ==
  [][ ( \/ /\ Handled(CLAIM_STATE)
           /\ (SenderResources < 5 \/ TargetOwner # Undefined)
        \/ /\ Handled(ATTACK_STATE)
           /\ \/ TargetOwner \in {Undefined, SenderPlayer}
              \/ SenderResources < AttackCost )
      => /\ Len(sent') = 1
         /\ sent'[1].to = Sender
         /\ sent'[1].msg.type = ERROR
         /\ games' = games
         /\ clients' = clients ]_vars

RejectedWithOtherClientInGame ==
  /\ last.op \in {CLAIM_STATE, ATTACK_STATE}
  /\ last.outcome = "rejected"
  /\ Len(sent) = 1
  /\ \E c \in DOMAIN clients :
       c # last.clientId /\ clients[c].gameId = last.gameId


\* the step handles JOIN_GAME: JoinedGame and NewPlayer describe it
JoinHandled == last'.op = JOIN_GAME /\ Sender \in DOMAIN clients
JoinedGame == last'.gameId
NewPlayer == last'.playerId

\* the step removes the sender's player: LEAVE_GAME or the socket closing
LeaveHandled ==
  /\ last'.op \in {LEAVE_GAME, "disconnect"}
  /\ Sender \in DOMAIN clients
  /\ SenderGame \in DOMAIN games
  /\ SenderPlayer \in DOMAIN games[SenderGame].players

\* C11: every game of the registry has a player; when the only player of a
\* game leaves (LEAVE_GAME or socket close) the game is removed; a join to a
\* game id that is not in the registry yields an instance whose only player
\* is the new one and that has no ownership record
GameLivesWithItsPlayers ==
  [][ /\ \A g \in DOMAIN games' : DOMAIN games'[g].players # {}
      /\ (LeaveHandled /\ DOMAIN games[SenderGame].players = {SenderPlayer})
            => SenderGame \notin DOMAIN games'
      /\ (JoinHandled /\ JoinedGame \notin DOMAIN games)
            => /\ DOMAIN games'[JoinedGame].players = {NewPlayer}
               /\ DOMAIN games'[JoinedGame].stateOwnerships = {} ]_vars

SecondPlayerAloneInFreshGame ==
  /\ last.op = JOIN_GAME
  /\ last.playerId = 2
  /\ DOMAIN games = {last.gameId}
  /\ DOMAIN games[last.gameId].players = {2}
  /\ DOMAIN games[last.gameId].stateOwnerships = {}


\* some game of the registry has a participant
SomeParticipant == \E g \in DOMAIN games : DOMAIN games[g].players # {}

\* C12: the accrual timer runs only while some game has a participant: it
\* is not running when no game has a player (just after construction, or
\* once the last participant has left while clients stay connected)
TimerOnlyWhileParticipants == resourceUpdateInterval = TRUE => SomeParticipant


\* the regions of game g that player p owns in the registry gs
RegionsOf(gs, g, p) ==
  {s \in DOMAIN gs[g].stateOwnerships : gs[g].stateOwnerships[s].ownerId = p}

\* the RESOURCES_UPDATED event of game g for the registry gs
ResourcesEvent(gs, g) ==
  [type |-> RESOURCES_UPDATED, gameId |-> g,
   playerResources |->
     [p \in DOMAIN gs[g].players |-> gs[g].players[p].resources]]

\* C13: a resource tick adds to every player the number of regions the player
\* owns in their own game, changes no player set and no ownership, and
\* delivers to every client bound to a game exactly one RESOURCES_UPDATED
\* whose map holds every player of the game with the balance after the tick;
\* holding for every tick, n consecutive ticks add n times the owned count
TickAddsOwnedCount ==
  [][ last'.op = "tick" =>
        /\ DOMAIN games' = DOMAIN games
        /\ \A g \in DOMAIN games :
             /\ DOMAIN games'[g].players = DOMAIN games[g].players
             /\ games'[g].stateOwnerships = games[g].stateOwnerships
             /\ \A p \in DOMAIN games[g].players :
                  games'[g].players[p].resources =
                    games[g].players[p].resources
                      + Cardinality(RegionsOf(games, g, p))
        /\ \A c \in DOMAIN clients :
             MsgsTo(sent', c) =
               IF clients[c].gameId \in DOMAIN games
               THEN << [to |-> c,
                        msg |-> ResourcesEvent(games', clients[c].gameId)] >>
               ELSE << >> ]_vars

\* after two ticks a player that spent everything on two regions holds 4,
\* while the other player of the game, owning nothing, still holds 10
TwoTicksOnTwoRegions ==
  /\ last.op = "tick"
  /\ \E g \in DOMAIN games : \E p, q \in DOMAIN games[g].players :
       /\ Cardinality(RegionsOf(games, g, p)) = 2
       /\ games[g].players[p].resources = 4
       /\ RegionsOf(games, g, q) = {}
       /\ games[g].players[q].resources = INITIAL_RESOURCES


\* the players and ownerships of game g before the step (none if g is new)
PlayersBefore(g) == IF g \in DOMAIN games THEN games[g].players ELSE EmptyMap
OwnershipsBefore(g) ==
  IF g \in DOMAIN games THEN games[g].stateOwnerships ELSE EmptyMap

\* C14: handling JOIN_GAME for game g adds exactly one player, whose id is
\* not yet in g and whose resources are 10, leaves the other players and the
\* ownerships of g as they were, sends the joining client exactly the
\* GAME_STATE snapshot holding the new player, and sends every other client
\* bound to g exactly one PLAYER_JOINED for the new player (and nothing to
\* the clients not bound to g)
JoinAddsOnePlayer ==
  [][ JoinHandled =>
        /\ NewPlayer \notin DOMAIN PlayersBefore(JoinedGame)
        /\ DOMAIN games'[JoinedGame].players =
             DOMAIN PlayersBefore(JoinedGame) \cup {NewPlayer}
        /\ games'[JoinedGame].players[NewPlayer].id = NewPlayer
        /\ games'[JoinedGame].players[NewPlayer].resources = 10
        /\ \A p \in DOMAIN PlayersBefore(JoinedGame) :
             games'[JoinedGame].players[p] = PlayersBefore(JoinedGame)[p]
        /\ games'[JoinedGame].stateOwnerships = OwnershipsBefore(JoinedGame)
        /\ MsgsTo(sent', Sender) =
             << [to |-> Sender,
                 msg |-> [type |-> GAME_STATE, gameId |-> JoinedGame,
                          instance |-> games'[JoinedGame]]] >>
        /\ \A c \in DOMAIN clients \ {Sender} :
             MsgsTo(sent', c) =
               IF clients[c].gameId = JoinedGame
               THEN << [to |-> c,
                        msg |-> [type |-> PLAYER_JOINED, gameId |-> JoinedGame,
                                 player |->
                                   games'[JoinedGame].players[NewPlayer]]] >>
               ELSE << >> ]_vars

\* a second player has joined a game in which the first owns a region
JoinedGameWithOwner ==
  /\ last.op = JOIN_GAME
  /\ last.gameId \in DOMAIN games
  /\ DOMAIN games[last.gameId].players = {1, 2}
  /\ last.playerId = 2
  /\ \E s \in DOMAIN games[last.gameId].stateOwnerships :
       games[last.gameId].stateOwnerships[s].ownerId = 1
  /\ \E c \in DOMAIN clients :
       /\ c # last.clientId
       /\ clients[c].gameId = last.gameId
       /\ MsgsTo(sent, c) # << >>


\* the colors of the players of game g before the step
ColorsBefore(g) ==
  {PlayersBefore(g)[p].color : p \in DOMAIN PlayersBefore(g)}

\* C15: when a player is added to a game in which some color of the palette
\* is unused, the color assigned differs from the color of every player
\* that is in the game at that moment, whatever joins and leaves came before
FreshColorWhilePaletteLasts ==
  [][ (JoinHandled /\ \E i \in DOMAIN colors : colors[i] \notin ColorsBefore(JoinedGame))
        => games'[JoinedGame].players[NewPlayer].color
             \notin ColorsBefore(JoinedGame) ]_vars

\* after the first player left, the third player takes over the first
\* palette color while the second player keeps the second one
FreedColorReused ==
  /\ last.op = JOIN_GAME
  /\ last.playerId = 3
  /\ last.gameId \in DOMAIN games
  /\ DOMAIN games[last.gameId].players = {2, 3}
  /\ games[last.gameId].players[3].color = colors[1]
  /\ games[last.gameId].players[2].color = colors[2]


\* the step handles a message that is not valid JSON, has an unknown type,
\* or is a claim or an attack without its stateId
MalformedHandled ==
  /\ Sender \in DOMAIN clients
  /\ \/ last'.op \in {INVALID_JSON, UNKNOWN_TYPE}
     \/ last'.op \in {CLAIM_STATE, ATTACK_STATE} /\ Target = Undefined

\* C16: a message that is not valid JSON, has an unrecognised type, or is a
\* claim or attack missing a required field changes nothing in the registry
\* and is answered with an ERROR to the sending client
MalformedIsDropped ==
  [][ MalformedHandled =>
        /\ games' = games
        /\ \E i \in DOMAIN sent' :
             sent'[i].to = Sender /\ sent'[i].msg.type = ERROR ]_vars


\* the messages passed to sendMessage so far, in call order
AllMessages(h) == [i \in 1..h.sendCalls |-> i]
Connected(h) == h.channelRef # NoChannel /\ h.isConnected

Armed ==
  /\ hook'.reconnectTimeout = "pending"
  /\ hook'.connectionStatus = ReconnectingStatus(hook')

\* C19: the wait armed with attempt counter k is min(1000 * 2^k, 30000) ms;
\* it never exceeds 30000 ms, and within a run of failures (no SUBSCRIBED
\* and no leaveChannel in between) it is never shorter than the wait before
BackoffDoublesUpToCap ==
  [][ Armed =>
        /\ hook'.delay = Min(1000 * 2 ^ hook'.reconnectAttempts, 30000)
        /\ hook'.delay <= 30000
        /\ hook'.delay >= hook.delay ]_hook

\* the tenth attempt is awaited with the capped wait
TenthAttemptWaitsCap ==
  /\ hook.connectionStatus = "RECONNECTING (10/10)"
  /\ hook.reconnectTimeout = "pending"
  /\ hook.reconnectAttempts = 9
  /\ hook.delay = 30000


\* C20: when the channel reports SUBSCRIBED the attempt counter is zero, and
\* the first wait armed after the counter was reset is the initial 1000 ms,
\* armed with the counter still at zero (the whole budget of attempts left)
ResetRestoresBackoff ==
  [][ /\ hook'.op = SUBSCRIBED => hook'.reconnectAttempts = 0
      /\ (Armed /\ hook.delay = 0) =>
            /\ hook'.delay = 1000
            /\ hook'.reconnectAttempts = 0 ]_hook


\* the step is a failure (a failure status of the channel or a join that
\* threw) met with the attempt counter at its maximum
FailedWithBudgetSpent ==
  /\ hook'.reconnectAttempts >= 10
  /\ \/ hook'.op \in {TIMED_OUT, CLOSED, CHANNEL_ERROR}
     \/ hook'.connectionStatus \in {"ERROR", "MAX_RETRIES_EXCEEDED"}
          /\ hook'.joinStarted

Idle(h) ==
  /\ h.channelRef = NoChannel
  /\ h.reconnectTimeout # "pending"
  /\ h.connectionStatus = "DISCONNECTED"
  /\ h.reconnectAttempts = 0

\* C22: leaveChannel in any state drops the channel, leaves no retry timer
\* pending, sets the status DISCONNECTED and the attempt counter to zero;
\* from then on, until the caller calls joinChannel or sendMessage, the hook
\* stays so and starts no connection attempt, whatever callbacks of
\* abandoned channels run
LeaveIsFinal ==
  [][ /\ hook'.op = "leaveChannel" => Idle(hook')
      /\ (Idle(hook) /\ hook'.op \notin {"joinChannel", "sendMessage"}) =>
            Idle(hook') /\ ~hook'.joinStarted ]_hook


\* C23: the promise of joinChannel resolves only when the subscription has
\* reached SUBSCRIBED (status CONNECTED, hook connected), and a subscription
\* that ends in TIMED_OUT, CLOSED or CHANNEL_ERROR leaves it rejected
JoinSettlesWithOutcome ==
  [][ /\ (hook'.joinStarted /\ hook'.joinPromise = "resolved") =>
            /\ hook'.connectionStatus = "CONNECTED"
            /\ hook'.isConnected
      /\ (hook'.op \in {TIMED_OUT, CLOSED, CHANNEL_ERROR} /\ ~hook.isConnected)
            => hook'.joinPromise = "rejected" ]_hook


\* C24: when a RESOURCES_UPDATED event names the local player, the balance
\* the context shows for the local player (currentPlayer.resources) is from
\* then on the value the event carries, whatever claimState or attackState
\* had subtracted before
ResourcesEventReplacesLocal ==
  [][ (/\ ctx.currentPlayer.resources < ctx.before
       /\ ctx'.op = "broadcast"
       /\ ctx'.event.type = RESOURCES_UPDATED
       /\ ctx.currentPlayer.id \in DOMAIN ctx'.event.playerResources)
        => ctx'.currentPlayer.resources =
             ctx'.event.playerResources[ctx.currentPlayer.id] ]_ctx


\* C25: when the ERROR event arrives after a claimState or attackState that
\* subtracted its cost and sent its message, the local balance is again the
\* one before that call and connectionError is the event's message
ErrorEventReverts ==
  [][ (/\ ctx.sending \in {CLAIM_STATE, ATTACK_STATE}
       /\ ctx'.op = "broadcast"
       /\ ctx'.event.type = ERROR)
        => /\ ctx'.currentPlayer.resources = ctx.before
           /\ ctx'.connectionError = ctx'.event.message ]_ctx


\* the number of presences of the presence state that carry player p
Occurrences(seq, p) == Cardinality({i \in DOMAIN seq : seq[i] = p})
PresencesOf(state, p) ==
  Cardinality({ki \in UNION {{<< k, i >> : i \in DOMAIN state[k]} :
                              k \in DOMAIN state} :
                 state[ki[1]][ki[2]] = p})

\* C26: after every presence sync onlinePlayers lists each player as often
\* as the presence state carries it and nothing else, whatever was listed
\* before the sync
SyncReplacesOnlinePlayers ==
  [][ ctx'.op = "presence sync" =>
        /\ \A i \in DOMAIN ctx'.onlinePlayers :
              ctx'.onlinePlayers[i] \in CtxPlayerIds
        /\ \A p \in CtxPlayerIds :
              Occurrences(ctx'.onlinePlayers, p)
                = PresencesOf(ctx'.event.state, p) ]_ctx

\* a sync whose presence state lacks a player that was listed before it
ListedPlayerDropped ==
  /\ ctx.op = "presence sync"
  /\ \E p \in CtxPlayerIds :
       /\ Occurrences(ctx.event.listed, p) > 0
       /\ Occurrences(ctx.onlinePlayers, p) = 0
       /\ Len(ctx.onlinePlayers) > 0


\* C27: when the race of joinChannel() and the connection timeout rejects,
\* joinGame leaves gameId and currentPlayer null, connectionError a
\* non-empty message, its promise rejected and isJoining false, and the
\* next joinGame call is accepted
FailedJoinResets ==
  [][ /\ ctx'.op = "join failed" =>
            /\ ctx'.gameId = Undefined
            /\ ctx'.currentPlayer = NoPlayer
            /\ ctx'.connectionError \notin {NoConnectionError, ""}
            /\ ctx'.joinGamePromise = "rejected"
            /\ ~ctx'.isJoining
      /\ (ctx.op = "join failed" /\ ctx'.op = "joinGame") =>
            /\ ctx'.joinGamePromise = "pending"
            /\ ctx'.isJoining ]_ctx

\* a channel join that failed when the provider held a game instance
FailedJoinFromAGame ==
  /\ ctx.op = "join failed"
  /\ ctx.gameInstance.present


\* C28: the channel the hook holds, subscribed or subscribing, is always
\* the one named by the current channelName option; a change of the option
\* leaves no channel of the old name behind, and CONNECTED is reported only
\* on the channel of the current name
ChannelFollowsName ==
  /\ hook.channelRef # NoChannel => hook.channelTopic = hook.channelName
  /\ hook.connectionStatus = "CONNECTED" =>
        hook.channelTopic = hook.channelName


\* the game the step's message is handled for
ActedGame == IF last'.op = JOIN_GAME THEN JoinedGame ELSE SenderGame

OwnsNeighbor ==
  \E s \in Neighbors(Target) : OwnerIn(games, SenderGame, s) = SenderPlayer

\* C30: a claim changes the game only if the target is neutral, the claimant
\* owns a region adjacent to it and holds at least 5; an attack changes the
\* game only if the target is owned by another player, the attacker owns a
\* region adjacent to it and holds at least 10; a claim or attack of a
\* player owning no region adjacent to the target leaves ownerships and
\* balances as they were
AdjacencyRequired ==
  [][ /\ (Handled(CLAIM_STATE) /\ games' # games) =>
            /\ TargetOwner = Undefined
            /\ OwnsNeighbor
            /\ SenderResources >= 5
      /\ (Handled(ATTACK_STATE) /\ games' # games) =>
            /\ TargetOwner \notin {Undefined, SenderPlayer}
            /\ OwnsNeighbor
            /\ SenderResources >= 10
      /\ ((Handled(CLAIM_STATE) \/ Handled(ATTACK_STATE)) /\ ~OwnsNeighbor)
            => games' = games ]_vars


\* a subscription of the channel in channelRef is under way
InFlight(h) == h.channelRef = Channel /\ h.connectionStatus = "CONNECTING"

\* C37: a subscription under way and a pending retry timer never exist
\* together, and a sendMessage called while one of them exists starts no
\* join (so it drops no channel that is about to connect)
OneAttemptOutstanding ==
  [][ /\ ~(InFlight(hook') /\ hook'.reconnectTimeout = "pending")
      /\ (/\ hook'.op = "sendMessage"
          /\ InFlight(hook) \/ hook.reconnectTimeout = "pending")
            => ~hook'.joinStarted ]_hook


\* C38: every message handed to a channel is handed to the channel of the
\* name the hook was configured with when sendMessage was called with it,
\* also after leaveChannel and after a change of channelName
SentOnItsOwnChannel ==
  \A i \in DOMAIN hook.transmitted :
     hook.sentOn[i] = hook.meantFor[hook.transmitted[i]]


\* C39: when the hook reports connected (isConnected, status CONNECTED) it
\* holds the channel whose subscription reached SUBSCRIBED; a SUBSCRIBED
\* callback of a channel that was cleaned up does not make the hook
\* connected and hands no queued message to that channel
ConnectedMeansCurrentChannel ==
  [][ /\ (hook'.isConnected \/ hook'.connectionStatus = "CONNECTED") =>
            hook'.channelRef = Channel
      /\ hook'.op = "abandoned channel" =>
            /\ hook'.isConnected = hook.isConnected
            /\ hook'.transmitted = hook.transmitted ]_hook


\* C40: the balance the provider keeps for the local player is never
\* negative, also when claimState or attackState is called several times
\* before the provider renders
LocalBalanceNeverNegative == ctx.currentPlayer.resources >= 0


\* C32: after useGameRealtime has handled a RESOURCES_UPDATED event for
\* player p with resources r (r >= 0, 0 included), every listed player with
\* id p has resources r and every other entry of players is as it was
ResourcesEventSetsBalance ==
  [][ (realtime'.op = "event"
         /\ realtime'.event.eventType = RESOURCES_UPDATED) =>
        /\ Len(realtime'.players) = Len(realtime.players)
        /\ \A i \in DOMAIN realtime.players :
             realtime'.players[i] =
               IF realtime.players[i].id = realtime'.event.playerId
               THEN [id |-> realtime.players[i].id,
                     resources |-> realtime'.event.resources]
               ELSE realtime.players[i] ]_realtime


\* regions, players and selections of the hook's state
Shown(r) == << r.mapStates, r.players, r.playerSelections >>

SenderIsBound ==
  /\ Sender \in DOMAIN clients
  /\ SenderGame # Undefined
  /\ SenderPlayer # Undefined

\* C34: a CLAIM_STATE or ATTACK_STATE message is applied for the game and
\* the player its connection was bound to at join, whatever game id and
\* player id its body names: no other game changes, no other player pays,
\* and a region that changes owner goes to the bound player; a CLAIM_STATE,
\* ATTACK_STATE or LEAVE_GAME message of a connection bound to no player
\* changes neither the games nor the bindings
OnlyTheBoundPlayerActs ==
  [][ /\ (Handled(CLAIM_STATE) \/ Handled(ATTACK_STATE)) =>
            /\ DOMAIN games' = DOMAIN games
            /\ \A g \in DOMAIN games \ {SenderGame} : games'[g] = games[g]
            /\ DOMAIN games'[SenderGame].players =
                 DOMAIN games[SenderGame].players
            /\ \A p \in DOMAIN games[SenderGame].players \ {SenderPlayer} :
                 ResourcesIn(games', SenderGame, p) =
                   ResourcesIn(games, SenderGame, p)
            /\ \A s \in StateIds :
                 OwnerIn(games', SenderGame, s) # OwnerIn(games, SenderGame, s)
                   => s = Target /\ OwnerIn(games', SenderGame, s) = SenderPlayer
            /\ last'.outcome = "applied" =>
                 ResourcesIn(games', SenderGame, SenderPlayer) < SenderResources
            /\ clients' = clients
      /\ (/\ last'.op \in {CLAIM_STATE, ATTACK_STATE, LEAVE_GAME}
          /\ ~SenderIsBound)
           => games' = games /\ clients' = clients
     ]_vars

\* a claim whose body names the other game and its player has been applied
\* for the sender's own player
ForgedClaimApplied ==
  /\ last.op = CLAIM_STATE
  /\ last.outcome = "applied"
  /\ last.bodyGameId \in DOMAIN games \ {last.gameId}
  /\ last.bodyPlayerId \in DOMAIN games[last.bodyGameId].players
  /\ OwnerIn(games, last.gameId, last.stateId) = last.playerId
  /\ \A s \in StateIds : OwnerIn(games, last.bodyGameId, s) = Undefined


\* the connections bound to player p of game g
BoundTo(g, p) ==
  {c \in DOMAIN clients : clients[c].gameId = g /\ clients[c].playerId = p}

\* C35: every player in a game's players mapping is bound to exactly one
\* connected client, also after a client has sent JOIN_GAME a second time
EveryPlayerIsBound ==
  \A g \in DOMAIN games :
    \A p \in DOMAIN games[g].players : Cardinality(BoundTo(g, p)) = 1


\* C36: an ATTACK_STATE message is either rejected without changing the
\* games, or it lowers the attacker's resources by at least ATTACK_BASE_COST,
\* for negative, zero and positive extraResources
AttackCostsAtLeastBase ==
  [][ Handled(ATTACK_STATE) =>
        \/ last'.outcome = "rejected" /\ games' = games
        \/ ResourcesIn(games', SenderGame, SenderPlayer)
             <= SenderResources - ATTACK_BASE_COST
     ]_vars


\* the provider's view of region s
ViewOwner(s) ==
  IF s \in DOMAIN ctx.gameInstance.stateOwnerships
  THEN ctx.gameInstance.stateOwnerships[s]
  ELSE Undefined

====
